---- MODULE Spec2Model ----
(***************************************************************************)
(* The conductor core of the bare-metal provisioning service: the         *)
(* ConductorManager RPC handlers (ironic/conductor/manager.py) running as  *)
(* concurrent tasks of several conductors over the shared node table, on   *)
(* top of the task manager's per-node reservation.                         *)
(*                                                                         *)
(* A handler is a sequence of atomic steps, cut at its driver calls: the   *)
(* step that enters the `with task_manager.acquire(...)` block, one step   *)
(* per driver call (or pair of calls with no write between them) that      *)
(* consumes the driver's answer and runs the handler up to its next driver *)
(* call, and the exit of the with block, taken together with the last      *)
(* step of the handler.                                                    *)
(***************************************************************************)
EXTENDS Integers, FiniteSets, Sequences

VARIABLES db, pc, tk, last, ncalls, ncrashes, orphan, interrupted,
          conductors, boot

vars == <<db, pc, tk, last, ncalls, ncrashes, orphan, interrupted,
          conductors, boot>>

(* What the node handlers read and write. *)
nodeVars == <<db, pc, tk, last, ncalls, ncrashes, orphan, interrupted>>

---------------------------------------------------------------------------
(* Bounds of the model. *)

MaxCalls == 2
MaxCrashes == 1
MaxBeats == 2

Nodes == {1, 2}
Tasks == {1, 2}

Hosts == {"host-a", "host-b"}

(* Each task is a worker thread of a running conductor: of host-a and of   *)
(* host-b when both run, two threads of host-a when host-b does not.       *)
Host(t) ==
  IF t % 2 = 0 /\ boot["host-b"].at = "started" THEN "host-b" ELSE "host-a"

---------------------------------------------------------------------------
(* ironic.common.states as the manager and its tests use them. *)

None == "None"
NOSTATE == None
POWER_ON == "power on"
POWER_OFF == "power off"
DEPLOYING == "deploying"
DEPLOYDONE == "deploy complete"
DEPLOYFAIL == "deploy failed"
ACTIVE == "active"
DELETING == "deleting"
DELETED == "deleted"
ERROR == "error"

(* What driver.power.get_power_state may answer. *)
PowerStates == {NOSTATE, POWER_ON, POWER_OFF}
(* The new_state arguments of change_node_power_state: the two valid ones  *)
(* and the invalid "POWER" of test_change_node_power_state_to_invalid_state *)
NewStates == {POWER_ON, POWER_OFF, "POWER"}
ValidNewStates == {POWER_ON, POWER_OFF}

(* What driver.deploy.deploy and driver.deploy.tear_down may return: the   *)
(* final state, the pending state of the tests and, for deploy, the        *)
(* DEPLOYFAIL that do_node_tear_down expects to find on a node.            *)
DeployReturns == {DEPLOYDONE, DEPLOYING, DEPLOYFAIL}
TearDownReturns == {DELETED, DELETING}

(* The driver registry: the loaded drivers; "fake" has a vendor extension. *)
Drivers == {"fake", "plain"}
HasVendor(d) == d = "fake"

(* last_error messages written by the handlers. *)
PowerError == "Failed to change power state"
DeployValidateError == "Failed to validate deploy info"
DeployError == "Failed to deploy"
TearDownValidateError == "Failed to validate info for teardown"
TearDownError == "Failed to tear down"

---------------------------------------------------------------------------
(* The node table. A row as utils.get_test_node makes it, and the rows the *)
(* tests create. *)

Fields == {"driver", "extra", "instance_uuid", "power_state",
           "target_power_state", "provision_state",
           "target_provision_state", "last_error", "reservation"}

get_test_node ==
  [driver |-> "fake", extra |-> "one", instance_uuid |-> None,
   power_state |-> NOSTATE, target_power_state |-> NOSTATE,
   provision_state |-> NOSTATE, target_provision_state |-> NOSTATE,
   last_error |-> None, reservation |-> None]

InitRows ==
  { get_test_node,
    [get_test_node EXCEPT !.power_state = POWER_OFF],
    [get_test_node EXCEPT !.power_state = POWER_ON,
                          !.target_power_state = POWER_OFF],
    [get_test_node EXCEPT !.power_state = POWER_ON,
                          !.last_error = "anything but None"],
    [get_test_node EXCEPT !.provision_state = ACTIVE],
    [get_test_node EXCEPT !.driver = "plain"] }

(* The node_obj arguments of update_node, as the fields that changed       *)
(* (obj_what_changed) with their new values.                               *)
Deltas ==
  { [extra |-> "two"],
    [extra |-> "two", instance_uuid |-> "fake-uuid"],
    [instance_uuid |-> None],
    [driver |-> "wrong-driver", extra |-> "two"],
    [power_state |-> POWER_ON] }

(* Node.save(): the changed fields of the object are written to the row. *)
save(d, n, changes) ==
  [d EXCEPT ![n] = [f \in Fields |->
                      IF f \in DOMAIN changes THEN changes[f] ELSE d[n][f]]]

---------------------------------------------------------------------------
(* The persistence gateway's reservation primitives and the task manager. *)

(* reserve_node without its WHERE reservation IS NULL. *)
reserve_node_unconditional(d, n, holder) ==
  [ok |-> TRUE, db |-> [d EXCEPT ![n].reservation = holder],
   holder |-> holder]


(* reserve_node that also grants a node already reserved for the caller's  *)
(* own hostname.                                                           *)
reserve_node_reentrant(d, n, holder) ==
  IF d[n].reservation \in {None, holder}
  THEN [ok |-> TRUE, db |-> [d EXCEPT ![n].reservation = holder],
        holder |-> holder]
  ELSE [ok |-> FALSE, db |-> d, holder |-> d[n].reservation]

(* UPDATE node SET reservation = holder WHERE id = n AND reservation IS NULL *)
reserve_node(d, n, holder) ==
  IF d[n].reservation = None
  THEN [ok |-> TRUE, db |-> [d EXCEPT ![n].reservation = holder],
        holder |-> holder]
  ELSE [ok |-> FALSE, db |-> d, holder |-> d[n].reservation]

(* release_node that clears nothing. *)
release_node_noop(d, n, holder) == d

(* Clears the reservation only where it equals holder. *)
release_node(d, n, holder) ==
  IF d[n].reservation = holder THEN [d EXCEPT ![n].reservation = None] ELSE d

(* The teardown of the scoped handle: every reservation taken is released. *)
release_resources(d, taken, holder) ==
  [n \in Nodes |-> IF n \in taken THEN release_node(d, n, holder)[n] ELSE d[n]]

---------------------------------------------------------------------------
(* Task-local state, and the call that ended in the step just taken. *)

NoRow == None

Idle ==
  [op |-> "none", node |-> 0, want |-> {}, taken |-> {}, new_state |-> None,
   delta |-> <<>>, pre |-> NoRow, calls |-> <<>>]

(* calls is the sequence of driver methods the call has invoked so far. *)
PowerProbe == <<"power.validate", "power.get_power_state">>

(* pre is task.node as loaded when the task was acquired. *)
Running(op, n, want, taken, new_state, delta, pre) ==
  [op |-> op, node |-> n, want |-> want, taken |-> taken,
   new_state |-> new_state, delta |-> delta, pre |-> pre, calls |-> <<>>]

NoCall ==
  [task |-> 0, op |-> "none", node |-> 0, want |-> {}, taken |-> {},
   new_state |-> None, delta |-> <<>>, pre |-> NoRow, calls |-> <<>>,
   outcome |-> "none", detail |-> None]

(* How a call ended: its task-local state at its last step, the exception  *)
(* it raised ("ok" for a return) and what the exception or reply carried.  *)
Ended(t, call, outcome, detail) ==
  [task |-> t, op |-> call.op, node |-> call.node, want |-> call.want,
   taken |-> call.taken, new_state |-> call.new_state, delta |-> call.delta,
   pre |-> call.pre, calls |-> call.calls, outcome |-> outcome,
   detail |-> detail]

(* The conductor table: one row per registered hostname with the driver   *)
(* names it loaded; boot is each conductor's position in start(), the      *)
(* names its most recent start loaded and the driver lists of the rows     *)
(* that start found under its hostname.                                    *)
LoadedDrivers == <<"fake", "plain">>

Started(names, found) ==
  [at |-> "started", names |-> names, found |-> found, beats |-> 0]

(* A row of the conductor table as register_conductor inserts it;          *)
(* updated_at counts the heartbeats since then.                            *)
Row(hostname, drivers) ==
  [hostname |-> hostname, drivers |-> drivers, updated_at |-> 0]

InitNodes ==
  /\ \E row \in InitRows :
       db = [n \in Nodes |-> IF n = 1 THEN row ELSE get_test_node]
  /\ pc = [t \in Tasks |-> "idle"]
  /\ tk = [t \in Tasks |-> Idle]
  /\ last = NoCall
  /\ ncalls = 0
  /\ ncrashes = 0
  /\ orphan = {}
  /\ interrupted = {n \in Nodes : db[n].target_power_state # NOSTATE}

(* The conductors have started and serve RPCs. *)
Init ==
  /\ InitNodes
  /\ conductors = {Row(h, LoadedDrivers) : h \in Hosts}
  /\ boot = [h \in Hosts |-> Started(LoadedDrivers, {})]

(* An RPC arrives at an idle task. *)
Begin(t) ==
  /\ pc[t] = "idle"
  /\ ncalls < MaxCalls
  /\ ncalls' = ncalls + 1
  /\ UNCHANGED <<ncrashes, orphan, interrupted, conductors, boot>>

Step(t, at) ==
  /\ pc[t] = at
  /\ UNCHANGED <<ncalls, ncrashes, orphan, interrupted, conductors, boot>>

(* The handler goes on to its next driver call, having written d. *)
Continue(t, made, d, next) ==
  /\ db' = d
  /\ pc' = [pc EXCEPT ![t] = next]
  /\ tk' = [tk EXCEPT ![t].calls = @ \o made]
  /\ last' = NoCall

(* A handler that releases at the end of its body only, not on exceptions. *)
Exit_leaks_on_error(t, made, d, outcome, detail) ==
  /\ db' = IF outcome = "ok"
           THEN release_resources(d, tk[t].taken, Host(t)) ELSE d
  /\ pc' = [pc EXCEPT ![t] = "idle"]
  /\ tk' = [tk EXCEPT ![t] = Idle]
  /\ last' = Ended(t, [tk[t] EXCEPT !.calls = @ \o made],
                   outcome, detail)

(* The handler leaves its with block, by return or by exception: the       *)
(* task's reservations are released and the call is over.                  *)
Exit(t, made, d, outcome, detail) ==
  /\ db' = release_resources(d, tk[t].taken, Host(t))
  /\ pc' = [pc EXCEPT ![t] = "idle"]
  /\ tk' = [tk EXCEPT ![t] = Idle]
  /\ last' = Ended(t, [tk[t] EXCEPT !.calls = @ \o made],
                   outcome, detail)


(* A failure path that releases the node for the task's hostname although  *)
(* the task took no reservation.                                           *)
Reject_frees_host(t, made, op, n, new_state, delta, outcome, detail) ==
  /\ db' = release_node(db, n, Host(t))
  /\ pc' = pc
  /\ tk' = tk
  /\ last' = Ended(t, [Running(op, n, {n}, {}, new_state, delta, db[n])
                         EXCEPT !.calls = made], outcome, detail)

(* The call ends with no reservation held by the task and nothing written. *)
Reject(t, made, op, n, new_state, delta, outcome, detail) ==
  /\ db' = db
  /\ pc' = pc
  /\ tk' = tk
  /\ last' = Ended(t, [Running(op, n, {n}, {}, new_state, delta, db[n])
                         EXCEPT !.calls = made], outcome, detail)

(* A handler that records the lock conflict in the row it could not lock. *)
Enter_records_error(t, op, n, new_state, delta, driver_name, next) ==
  LET r == reserve_node(db, n, Host(t)) IN
  IF ~r.ok
  THEN /\ db' = save(db, n, [last_error |-> "NodeLocked"])
       /\ pc' = pc
       /\ tk' = tk
       /\ last' = Ended(t, Running(op, n, {n}, {}, new_state, delta, db[n]),
                        "NodeLocked", r.holder)
  ELSE IF driver_name # None /\ driver_name \notin Drivers
  THEN /\ db' = release_resources(r.db, {n}, Host(t))
       /\ pc' = pc
       /\ tk' = tk
       /\ last' = Ended(t, Running(op, n, {n}, {n}, new_state, delta, db[n]),
                        "DriverNotFound", driver_name)
  ELSE /\ db' = r.db
       /\ pc' = [pc EXCEPT ![t] = next]
       /\ tk' = [tk EXCEPT ![t] =
                   Running(op, n, {n}, {n}, new_state, delta, db[n])]
       /\ last' = NoCall


(* A task manager that keeps the reservation when the driver is not found. *)
Enter_leaks_lock(t, op, n, new_state, delta, driver_name, next) ==
  LET r == reserve_node(db, n, Host(t)) IN
  IF ~r.ok
  THEN Reject(t, <<>>, op, n, new_state, delta, "NodeLocked", r.holder)
  ELSE IF driver_name # None /\ driver_name \notin Drivers
  THEN /\ db' = r.db
       /\ pc' = pc
       /\ tk' = tk
       /\ last' = Ended(t, Running(op, n, {n}, {n}, new_state, delta, db[n]),
                        "DriverNotFound", driver_name)
  ELSE /\ db' = r.db
       /\ pc' = [pc EXCEPT ![t] = next]
       /\ tk' = [tk EXCEPT ![t] =
                   Running(op, n, {n}, {n}, new_state, delta, db[n])]
       /\ last' = NoCall


(* A task manager that hands out the row as first created, not as it is    *)
(* in the table when the reservation is granted.                           *)
Enter_cached_row(t, op, n, new_state, delta, driver_name, next) ==
  LET r == reserve_node(db, n, Host(t)) IN
  IF ~r.ok
  THEN Reject(t, <<>>, op, n, new_state, delta, "NodeLocked", r.holder)
  ELSE IF driver_name # None /\ driver_name \notin Drivers
  THEN /\ db' = release_resources(r.db, {n}, Host(t))
       /\ pc' = pc
       /\ tk' = tk
       /\ last' = Ended(t, Running(op, n, {n}, {n}, new_state, delta, db[n]),
                        "DriverNotFound", driver_name)
  ELSE /\ db' = r.db
       /\ pc' = [pc EXCEPT ![t] = next]
       /\ tk' = [tk EXCEPT ![t] =
                   Running(op, n, {n}, {n}, new_state, delta,
                           get_test_node)]
       /\ last' = NoCall

(* task_manager.acquire(context, node_id, shared=False, driver_name) of a  *)
(* handler: the node is reserved, its row loaded, its driver resolved; a   *)
(* driver that is not found ends the task, which releases the node it had  *)
(* reserved.                                                               *)
Enter(t, op, n, new_state, delta, driver_name, next) ==
  LET r == reserve_node(db, n, Host(t)) IN
  IF ~r.ok
  THEN Reject(t, <<>>, op, n, new_state, delta, "NodeLocked", r.holder)
  ELSE IF driver_name # None /\ driver_name \notin Drivers
  THEN /\ db' = release_resources(r.db, {n}, Host(t))
       /\ pc' = pc
       /\ tk' = tk
       /\ last' = Ended(t, Running(op, n, {n}, {n}, new_state, delta, db[n]),
                        "DriverNotFound", driver_name)
  ELSE /\ db' = r.db
       /\ pc' = [pc EXCEPT ![t] = next]
       /\ tk' = [tk EXCEPT ![t] =
                   Running(op, n, {n}, {n}, new_state, delta, db[n])]
       /\ last' = NoCall

---------------------------------------------------------------------------
(* get_node_power_state: a shared task around one driver call. *)

(* get_node_power_state that refuses a node somebody has reserved. *)
get_node_power_state_checks_lock(t, n) ==
  /\ Begin(t)
  /\ \E answer \in PowerStates \cup {"raises"} :
       IF db[n].reservation # None
       THEN Reject(t, <<>>, "get_node_power_state",
                   n, None, <<>>, "NodeLocked", db[n].reservation)
       ELSE IF answer = "raises"
       THEN Reject(t, <<"power.get_power_state">>, "get_node_power_state",
                   n, None, <<>>, "DriverError", None)
       ELSE Reject(t, <<"power.get_power_state">>, "get_node_power_state",
                   n, None, <<>>, "ok", answer)

get_node_power_state(t, n) ==
  /\ Begin(t)
  /\ \E answer \in PowerStates \cup {"raises"} :
       IF answer = "raises"
       THEN Reject(t, <<"power.get_power_state">>, "get_node_power_state",
                   n, None, <<>>, "DriverError", None)
       ELSE Reject(t, <<"power.get_power_state">>, "get_node_power_state",
                   n, None, <<>>, "ok", answer)

---------------------------------------------------------------------------
(* update_node *)

(* update_node over a shared task: nothing is reserved. *)
update_node_unlocked(t, n, delta) ==
  /\ Begin(t)
  /\ IF "power_state" \in DOMAIN delta
     THEN Reject(t, <<>>, "update_node", n, None, delta,
                 "IronicException", None)
     ELSE /\ db' = db
          /\ pc' = [pc EXCEPT ![t] =
                      IF "instance_uuid" \in DOMAIN delta
                      THEN "update_check" ELSE "update_save"]
          /\ tk' = [tk EXCEPT ![t] =
                      Running("update_node", n, {n}, {}, None, delta, db[n])]
          /\ last' = NoCall

(* update_node without the test of 'power_state' in delta. *)
update_node_accepts_power_state(t, n, delta) ==
  /\ Begin(t)
  /\ Enter(t, "update_node", n, None, delta,
           IF "driver" \in DOMAIN delta THEN delta.driver ELSE None,
           IF "instance_uuid" \in DOMAIN delta
           THEN "update_check" ELSE "update_save")

update_node(t, n, delta) ==
  /\ Begin(t)
  /\ IF "power_state" \in DOMAIN delta
     THEN Reject(t, <<>>, "update_node", n, None, delta,
                 "IronicException", None)
     ELSE Enter(t, "update_node", n, None, delta,
                IF "driver" \in DOMAIN delta THEN delta.driver ELSE None,
                IF "instance_uuid" \in DOMAIN delta
                THEN "update_check" ELSE "update_save")

(* update_check that tests the power_state of the row it loaded, not the   *)
(* answer of the probe.                                                    *)
update_check_cached(t) ==
  /\ Step(t, "update_check")
  /\ LET n == tk[t].node
         delta == tk[t].delta IN
     \E answer \in PowerStates \cup {"validate raises", "probe raises"} :
       IF answer = "validate raises"
       THEN Exit(t, <<"power.validate">>, db,
                 "InvalidParameterValue", "validate")
       ELSE IF answer = "probe raises"
       THEN Exit(t, PowerProbe, db, "DriverError", "probe")
       ELSE IF tk[t].pre.power_state # POWER_OFF
       THEN Exit(t, PowerProbe, db, "NodeInWrongPowerState", answer)
       ELSE Exit(t, PowerProbe,
                 save(db, n, [f \in DOMAIN delta \cup {"power_state"} |->
                                IF f = "power_state"
                                THEN answer ELSE delta[f]]),
                 "ok", answer)

(* With instance_uuid in the delta: driver.power.validate and              *)
(* driver.power.get_power_state, whose answer is assigned to               *)
(* node_obj['power_state'] before the check and the save.                  *)
update_check(t) ==
  /\ Step(t, "update_check")
  /\ LET n == tk[t].node
         delta == tk[t].delta IN
     \E answer \in PowerStates \cup {"validate raises", "probe raises"} :
       IF answer = "validate raises"
       THEN Exit(t, <<"power.validate">>, db,
                 "InvalidParameterValue", "validate")
       ELSE IF answer = "probe raises"
       THEN Exit(t, PowerProbe, db, "DriverError", "probe")
       ELSE IF answer # POWER_OFF
       THEN Exit(t, PowerProbe, db, "NodeInWrongPowerState", answer)
       ELSE Exit(t, PowerProbe,
                 save(db, n, [f \in DOMAIN delta \cup {"power_state"} |->
                                IF f = "power_state"
                                THEN answer ELSE delta[f]]),
                 "ok", answer)

(* node_obj.save(context) of the changed fields, and the return. *)
update_save(t) ==
  /\ Step(t, "update_save")
  /\ Exit(t, <<>>, save(db, tk[t].node, tk[t].delta), "ok", None)

---------------------------------------------------------------------------
(* change_node_power_state *)

change_node_power_state(t, n, new_state) ==
  /\ Begin(t)
  /\ Enter(t, "change_node_power_state", n, new_state, <<>>, None,
           "power_check")

(* power_check whose except clause re-raises without recording last_error *)
power_check_no_error_record(t) ==
  /\ Step(t, "power_check")
  /\ LET n == tk[t].node
         new_state == tk[t].new_state IN
     \E answer \in PowerStates \cup {"validate raises", "probe raises"} :
       IF answer = "validate raises"
       THEN Exit(t, <<"power.validate">>, db,
                 "InvalidParameterValue", "validate")
       ELSE IF answer = "probe raises"
       THEN Exit(t, PowerProbe, db, "DriverError", "probe")
       ELSE IF answer = new_state
       THEN Exit(t, PowerProbe, save(db, n, [last_error |-> None]),
                 "ok", "same state")
       ELSE Continue(t, PowerProbe,
                     save(db, n, [target_power_state |-> new_state,
                                  last_error |-> None]),
                     "power_set")

(* power_check that goes on to set_power_state without saving the marker. *)
power_check_no_marker(t) ==
  /\ Step(t, "power_check")
  /\ LET n == tk[t].node
         new_state == tk[t].new_state IN
     \E answer \in PowerStates \cup {"validate raises", "probe raises"} :
       IF answer = "validate raises"
       THEN Exit(t, <<"power.validate">>,
                 save(db, n, [last_error |-> PowerError]),
                 "InvalidParameterValue", "validate")
       ELSE IF answer = "probe raises"
       THEN Exit(t, PowerProbe, save(db, n, [last_error |-> PowerError]),
                 "DriverError", "probe")
       ELSE IF answer = new_state
       THEN Exit(t, PowerProbe, save(db, n, [last_error |-> None]),
                 "ok", "same state")
       ELSE Continue(t, PowerProbe, db, "power_set")

(* power_check that writes the marker without clearing last_error. *)
power_check_marker_keeps_error(t) ==
  /\ Step(t, "power_check")
  /\ LET n == tk[t].node
         new_state == tk[t].new_state IN
     \E answer \in PowerStates \cup {"validate raises", "probe raises"} :
       IF answer = "validate raises"
       THEN Exit(t, <<"power.validate">>,
                 save(db, n, [last_error |-> PowerError]),
                 "InvalidParameterValue", "validate")
       ELSE IF answer = "probe raises"
       THEN Exit(t, PowerProbe, save(db, n, [last_error |-> PowerError]),
                 "DriverError", "probe")
       ELSE IF answer = new_state
       THEN Exit(t, PowerProbe, save(db, n, [last_error |-> None]),
                 "ok", "same state")
       ELSE Continue(t, PowerProbe,
                     save(db, n, [target_power_state |-> new_state]),
                     "power_set")

(* power_check whose short-circuit records the probed state as the node's *)
(* power_state.                                                            *)
power_check_syncs_power_state(t) ==
  /\ Step(t, "power_check")
  /\ LET n == tk[t].node
         new_state == tk[t].new_state IN
     \E answer \in PowerStates \cup {"validate raises", "probe raises"} :
       IF answer = "validate raises"
       THEN Exit(t, <<"power.validate">>,
                 save(db, n, [last_error |-> PowerError]),
                 "InvalidParameterValue", "validate")
       ELSE IF answer = "probe raises"
       THEN Exit(t, PowerProbe, save(db, n, [last_error |-> PowerError]),
                 "DriverError", "probe")
       ELSE IF answer = new_state
       THEN Exit(t, PowerProbe,
                 save(db, n, [last_error |-> None, power_state |-> answer]),
                 "ok", "same state")
       ELSE Continue(t, PowerProbe,
                     save(db, n, [target_power_state |-> new_state,
                                  last_error |-> None]),
                     "power_set")


(* power_check that clears target_power_state when validation fails. *)
power_check_validate_clears_target(t) ==
  /\ Step(t, "power_check")
  /\ LET n == tk[t].node
         new_state == tk[t].new_state IN
     \E answer \in PowerStates \cup {"validate raises", "probe raises"} :
       IF answer = "validate raises"
       THEN Exit(t, <<"power.validate">>,
                 save(db, n, [last_error |-> PowerError,
                              target_power_state |-> NOSTATE]),
                 "InvalidParameterValue", "validate")
       ELSE IF answer = "probe raises"
       THEN Exit(t, PowerProbe, save(db, n, [last_error |-> PowerError]),
                 "DriverError", "probe")
       ELSE IF answer = new_state
       THEN Exit(t, PowerProbe, save(db, n, [last_error |-> None]),
                 "ok", "same state")
       ELSE Continue(t, PowerProbe,
                     save(db, n, [target_power_state |-> new_state,
                                  last_error |-> None]),
                     "power_set")

(* driver.power.validate and driver.power.get_power_state, then the        *)
(* handler up to set_power_state.                                          *)
power_check(t) ==
  /\ Step(t, "power_check")
  /\ LET n == tk[t].node
         new_state == tk[t].new_state IN
     \E answer \in PowerStates \cup {"validate raises", "probe raises"} :
       IF answer = "validate raises"
       THEN Exit(t, <<"power.validate">>,
                 save(db, n, [last_error |-> PowerError]),
                 "InvalidParameterValue", "validate")
       ELSE IF answer = "probe raises"
       THEN Exit(t, PowerProbe, save(db, n, [last_error |-> PowerError]),
                 "DriverError", "probe")
       ELSE IF answer = new_state
       THEN Exit(t, PowerProbe, save(db, n, [last_error |-> None]),
                 "ok", "same state")
       ELSE Continue(t, PowerProbe,
                     save(db, n, [target_power_state |-> new_state,
                                  last_error |-> None]),
                     "power_set")

(* power_set with power_state assigned in the finally clause. *)
power_set_state_in_finally(t) ==
  /\ Step(t, "power_set")
  /\ LET n == tk[t].node
         new_state == tk[t].new_state IN
     \E raises \in BOOLEAN :
       /\ new_state \notin ValidNewStates => raises
       /\ IF raises
          THEN Exit(t, <<"power.set_power_state">>,
                    save(db, n, [last_error |-> PowerError,
                                 power_state |-> new_state,
                                 target_power_state |-> NOSTATE]),
                    IF new_state \in ValidNewStates
                    THEN "DriverError" ELSE "InvalidParameterValue", "set")
          ELSE Exit(t, <<"power.set_power_state">>,
                    save(db, n, [power_state |-> new_state,
                                 target_power_state |-> NOSTATE]),
                    "ok", "changed")

(* power_set whose finally clause does not clear the target. *)
power_set_keeps_target(t) ==
  /\ Step(t, "power_set")
  /\ LET n == tk[t].node
         new_state == tk[t].new_state IN
     \E raises \in BOOLEAN :
       /\ new_state \notin ValidNewStates => raises
       /\ IF raises
          THEN Exit(t, <<"power.set_power_state">>,
                    save(db, n, [last_error |-> PowerError]),
                    IF new_state \in ValidNewStates
                    THEN "DriverError" ELSE "InvalidParameterValue", "set")
          ELSE Exit(t, <<"power.set_power_state">>,
                    save(db, n, [power_state |-> new_state]),
                    "ok", "changed")

(* power_set over a driver that accepts any new_state. *)
power_set_accepts_any_state(t) ==
  /\ Step(t, "power_set")
  /\ LET n == tk[t].node
         new_state == tk[t].new_state IN
     \E raises \in BOOLEAN :
       IF raises
       THEN Exit(t, <<"power.set_power_state">>,
                 save(db, n, [last_error |-> PowerError,
                              target_power_state |-> NOSTATE]),
                 "DriverError", "set")
       ELSE Exit(t, <<"power.set_power_state">>,
                 save(db, n, [power_state |-> new_state,
                              target_power_state |-> NOSTATE]),
                 "ok", "changed")

(* driver.power.set_power_state returns or raises (an invalid new_state    *)
(* always raises), then the except/else/finally of the handler.            *)
power_set(t) ==
  /\ Step(t, "power_set")
  /\ LET n == tk[t].node
         new_state == tk[t].new_state IN
     \E raises \in BOOLEAN :
       /\ new_state \notin ValidNewStates => raises
       /\ IF raises
          THEN Exit(t, <<"power.set_power_state">>,
                    save(db, n, [last_error |-> PowerError,
                                 target_power_state |-> NOSTATE]),
                    IF new_state \in ValidNewStates
                    THEN "DriverError" ELSE "InvalidParameterValue", "set")
          ELSE Exit(t, <<"power.set_power_state">>,
                    save(db, n, [power_state |-> new_state,
                                 target_power_state |-> NOSTATE]),
                    "ok", "changed")

---------------------------------------------------------------------------
(* do_node_deploy *)

do_node_deploy(t, n) ==
  /\ Begin(t)
  /\ Enter(t, "do_node_deploy", n, None, <<>>, None, "deploy_validate")

(* deploy_validate without the test of provision_state. *)
deploy_validate_no_precondition(t) ==
  /\ Step(t, "deploy_validate")
  /\ LET n == tk[t].node IN
     \E raises \in BOOLEAN :
       IF raises
       THEN Exit(t, <<"deploy.validate">>,
                 save(db, n, [last_error |-> DeployValidateError]),
                 "InvalidParameterValue", "validate")
       ELSE Continue(t, <<"deploy.validate">>,
                     save(db, n, [provision_state |-> DEPLOYING,
                                  target_provision_state |-> DEPLOYDONE,
                                  last_error |-> None]),
                     "deploy_deploy")


(* deploy_validate that hands the node back before the driver deploys. *)
deploy_validate_releases_early(t) ==
  /\ Step(t, "deploy_validate")
  /\ LET n == tk[t].node IN
     IF tk[t].pre.provision_state # NOSTATE
     THEN Exit(t, <<>>, db, "InstanceDeployFailure", "precondition")
     ELSE \E raises \in BOOLEAN :
            IF raises
            THEN Exit(t, <<"deploy.validate">>,
                      save(db, n, [last_error |-> DeployValidateError]),
                      "InvalidParameterValue", "validate")
            ELSE Continue(t, <<"deploy.validate">>,
                          release_node(
                            save(db, n,
                                 [provision_state |-> DEPLOYING,
                                  target_provision_state |-> DEPLOYDONE,
                                  last_error |-> None]),
                            n, Host(t)),
                          "deploy_deploy")

(* deploy_validate that marks the node ERROR when validation fails. *)
deploy_validate_marks_error(t) ==
  /\ Step(t, "deploy_validate")
  /\ LET n == tk[t].node IN
     IF tk[t].pre.provision_state # NOSTATE
     THEN Exit(t, <<>>, db, "InstanceDeployFailure", "precondition")
     ELSE \E raises \in BOOLEAN :
            IF raises
            THEN Exit(t, <<"deploy.validate">>,
                      save(db, n, [last_error |-> DeployValidateError,
                                   provision_state |-> ERROR]),
                      "InvalidParameterValue", "validate")
            ELSE Continue(t, <<"deploy.validate">>,
                          save(db, n, [provision_state |-> DEPLOYING,
                                       target_provision_state |-> DEPLOYDONE,
                                       last_error |-> None]),
                          "deploy_deploy")

(* The precondition on task.node, then driver.deploy.validate with its     *)
(* except/else/finally.                                                    *)
deploy_validate(t) ==
  /\ Step(t, "deploy_validate")
  /\ LET n == tk[t].node IN
     IF tk[t].pre.provision_state # NOSTATE
     THEN Exit(t, <<>>, db, "InstanceDeployFailure", "precondition")
     ELSE \E raises \in BOOLEAN :
            IF raises
            THEN Exit(t, <<"deploy.validate">>,
                      save(db, n, [last_error |-> DeployValidateError]),
                      "InvalidParameterValue", "validate")
            ELSE Continue(t, <<"deploy.validate">>,
                          save(db, n, [provision_state |-> DEPLOYING,
                                       target_provision_state |-> DEPLOYDONE,
                                       last_error |-> None]),
                          "deploy_deploy")

(* deploy_deploy that records whatever state the driver returned. *)
deploy_deploy_verbatim(t) ==
  /\ Step(t, "deploy_deploy")
  /\ LET n == tk[t].node IN
     \E answer \in DeployReturns \cup {"raises"} :
       IF answer = "raises"
       THEN Exit(t, <<"deploy.deploy">>,
                 save(db, n, [last_error |-> DeployError,
                              provision_state |-> ERROR,
                              target_provision_state |-> NOSTATE]),
                 "InstanceDeployFailure", "driver")
       ELSE Exit(t, <<"deploy.deploy">>,
                 save(db, n, [provision_state |-> answer]), "ok", answer)

(* deploy_deploy that clears the target whatever the driver returned. *)
deploy_deploy_clears_target(t) ==
  /\ Step(t, "deploy_deploy")
  /\ LET n == tk[t].node IN
     \E answer \in DeployReturns \cup {"raises"} :
       IF answer = "raises"
       THEN Exit(t, <<"deploy.deploy">>,
                 save(db, n, [last_error |-> DeployError,
                              provision_state |-> ERROR,
                              target_provision_state |-> NOSTATE]),
                 "InstanceDeployFailure", "driver")
       ELSE Exit(t, <<"deploy.deploy">>,
                 save(db, n, [target_provision_state |-> NOSTATE,
                              provision_state |->
                                IF answer = DEPLOYDONE
                                THEN ACTIVE ELSE answer]),
                 "ok", answer)

(* driver.deploy.deploy returns a state or raises. *)
deploy_deploy(t) ==
  /\ Step(t, "deploy_deploy")
  /\ LET n == tk[t].node IN
     \E answer \in DeployReturns \cup {"raises"} :
       IF answer = "raises"
       THEN Exit(t, <<"deploy.deploy">>,
                 save(db, n, [last_error |-> DeployError,
                              provision_state |-> ERROR,
                              target_provision_state |-> NOSTATE]),
                 "InstanceDeployFailure", "driver")
       ELSE IF answer = DEPLOYDONE
       THEN Exit(t, <<"deploy.deploy">>,
                 save(db, n, [target_provision_state |-> NOSTATE,
                              provision_state |-> ACTIVE]),
                 "ok", answer)
       ELSE Exit(t, <<"deploy.deploy">>,
                 save(db, n, [provision_state |-> answer]), "ok", answer)

---------------------------------------------------------------------------
(* do_node_tear_down *)

do_node_tear_down(t, n) ==
  /\ Begin(t)
  /\ Enter(t, "do_node_tear_down", n, None, <<>>, None, "tear_down_validate")

tear_down_validate(t) ==
  /\ Step(t, "tear_down_validate")
  /\ LET n == tk[t].node IN
     IF tk[t].pre.provision_state \notin {ACTIVE, DEPLOYFAIL, ERROR}
     THEN Exit(t, <<>>, db, "InstanceDeployFailure", "precondition")
     ELSE \E raises \in BOOLEAN :
            IF raises
            THEN Exit(t, <<"deploy.validate">>,
                      save(db, n, [last_error |-> TearDownValidateError]),
                      "InvalidParameterValue", "validate")
            ELSE Continue(t, <<"deploy.validate">>,
                          save(db, n, [provision_state |-> DELETING,
                                       target_provision_state |-> DELETED,
                                       last_error |-> None]),
                          "tear_down_tear_down")

(* tear_down_tear_down that records whatever state the driver returned. *)
tear_down_tear_down_verbatim(t) ==
  /\ Step(t, "tear_down_tear_down")
  /\ LET n == tk[t].node IN
     \E answer \in TearDownReturns \cup {"raises"} :
       IF answer = "raises"
       THEN Exit(t, <<"deploy.tear_down">>,
                 save(db, n, [last_error |-> TearDownError,
                              provision_state |-> ERROR,
                              target_provision_state |-> NOSTATE]),
                 "InstanceDeployFailure", "driver")
       ELSE Exit(t, <<"deploy.tear_down">>,
                 save(db, n, [provision_state |-> answer]), "ok", answer)

(* tear_down_tear_down whose except clause leaves the target in place. *)
tear_down_tear_down_keeps_target(t) ==
  /\ Step(t, "tear_down_tear_down")
  /\ LET n == tk[t].node IN
     \E answer \in TearDownReturns \cup {"raises"} :
       IF answer = "raises"
       THEN Exit(t, <<"deploy.tear_down">>,
                 save(db, n, [last_error |-> TearDownError,
                              provision_state |-> ERROR]),
                 "InstanceDeployFailure", "driver")
       ELSE IF answer = DELETED
       THEN Exit(t, <<"deploy.tear_down">>,
                 save(db, n, [target_provision_state |-> NOSTATE,
                              provision_state |-> NOSTATE]),
                 "ok", answer)
       ELSE Exit(t, <<"deploy.tear_down">>,
                 save(db, n, [provision_state |-> answer]), "ok", answer)

(* driver.deploy.tear_down returns a state or raises. *)
tear_down_tear_down(t) ==
  /\ Step(t, "tear_down_tear_down")
  /\ LET n == tk[t].node IN
     \E answer \in TearDownReturns \cup {"raises"} :
       IF answer = "raises"
       THEN Exit(t, <<"deploy.tear_down">>,
                 save(db, n, [last_error |-> TearDownError,
                              provision_state |-> ERROR,
                              target_provision_state |-> NOSTATE]),
                 "InstanceDeployFailure", "driver")
       ELSE IF answer = DELETED
       THEN Exit(t, <<"deploy.tear_down">>,
                 save(db, n, [target_provision_state |-> NOSTATE,
                              provision_state |-> NOSTATE]),
                 "ok", answer)
       ELSE Exit(t, <<"deploy.tear_down">>,
                 save(db, n, [provision_state |-> answer]), "ok", answer)

---------------------------------------------------------------------------
(* Vendor passthru: shared tasks. *)

validate_vendor_action(t, n) ==
  /\ Begin(t)
  /\ IF HasVendor(db[n].driver)
     THEN \E valid \in BOOLEAN :
            Reject(t, <<"vendor.validate">>, "validate_vendor_action",
                   n, None, <<>>,
                   IF valid THEN "ok" ELSE "InvalidParameterValue", None)
     ELSE Reject(t, <<>>, "validate_vendor_action", n, None, <<>>,
                 "UnsupportedDriverExtension", "vendor passthru")

(* task.driver.vendor.vendor_passthru, with no test of task.driver.vendor. *)
do_vendor_action(t, n) ==
  /\ Begin(t)
  /\ IF HasVendor(db[n].driver)
     THEN \E raises \in BOOLEAN :
            Reject(t, <<"vendor.vendor_passthru">>, "do_vendor_action",
                   n, None, <<>>,
                   IF raises THEN "InvalidParameterValue" ELSE "ok", None)
     ELSE Reject(t, <<>>, "do_vendor_action", n, None, <<>>,
                 "AttributeError", None)

---------------------------------------------------------------------------
(* A task that takes exclusive reservations on a list of nodes directly    *)
(* from the task manager, holds them, and leaves its with block.           *)

Min(S) == CHOOSE x \in S : \A y \in S : x <= y

acquire(t, node_ids) ==
  /\ Begin(t)
  /\ db' = db
  /\ pc' = [pc EXCEPT ![t] = "acquiring"]
  /\ tk' = [tk EXCEPT ![t] =
              Running("acquire", 0, node_ids, {}, None, <<>>, NoRow)]
  /\ last' = NoCall

(* acquire_next that raises NodeLocked without releasing what it took. *)
acquire_next_no_rollback(t) ==
  /\ Step(t, "acquiring")
  /\ LET n == Min(tk[t].want \ tk[t].taken)
         r == reserve_node(db, n, Host(t)) IN
     IF r.ok
     THEN /\ db' = r.db
          /\ tk' = [tk EXCEPT ![t].taken = @ \cup {n}]
          /\ pc' = [pc EXCEPT ![t] =
                      IF tk[t].taken \cup {n} = tk[t].want
                      THEN "holding" ELSE "acquiring"]
          /\ last' = NoCall
     ELSE /\ db' = db
          /\ pc' = [pc EXCEPT ![t] = "idle"]
          /\ tk' = [tk EXCEPT ![t] = Idle]
          /\ last' = Ended(t, [tk[t] EXCEPT !.node = n, !.pre = db],
                           "NodeLocked", r.holder)


(* acquire_next that waits for a reserved node instead of giving up. *)
acquire_next_waits(t) ==
  /\ Step(t, "acquiring")
  /\ LET n == Min(tk[t].want \ tk[t].taken)
         r == reserve_node(db, n, Host(t)) IN
     /\ r.ok
     /\ db' = r.db
     /\ tk' = [tk EXCEPT ![t].taken = @ \cup {n}]
     /\ pc' = [pc EXCEPT ![t] =
                 IF tk[t].taken \cup {n} = tk[t].want
                 THEN "holding" ELSE "acquiring"]
     /\ last' = NoCall

(* reserve_node for the next node of the list, in ascending id order; on   *)
(* the first failure everything taken so far is released.                  *)
acquire_next(t) ==
  /\ Step(t, "acquiring")
  /\ LET n == Min(tk[t].want \ tk[t].taken)
         r == reserve_node(db, n, Host(t)) IN
     IF r.ok
     THEN /\ db' = r.db
          /\ tk' = [tk EXCEPT ![t].taken = @ \cup {n}]
          /\ pc' = [pc EXCEPT ![t] =
                      IF tk[t].taken \cup {n} = tk[t].want
                      THEN "holding" ELSE "acquiring"]
          /\ last' = NoCall
     ELSE /\ db' = release_resources(db, tk[t].taken, Host(t))
          /\ pc' = [pc EXCEPT ![t] = "idle"]
          /\ tk' = [tk EXCEPT ![t] = Idle]
          /\ last' = Ended(t, [tk[t] EXCEPT !.node = n, !.pre = db],
                           "NodeLocked", r.holder)

(* The body of the with block is over. *)
release(t) ==
  /\ Step(t, "holding")
  /\ Exit(t, <<>>, db, "ok", None)

---------------------------------------------------------------------------
(* A conductor process dies in the middle of an exclusive task: its tasks  *)
(* are gone, the rows keep what was written, reservation included; the     *)
(* conductor may start again under the same hostname. orphan is the nodes  *)
(* left reserved by a dead conductor, interrupted the nodes whose row      *)
(* carries the target_power_state of a power change that a dead conductor  *)
(* never finished (the tests create such a row directly).                  *)

Crash(h) ==
  LET victims == {t \in Tasks : Host(t) = h /\ pc[t] # "idle"} IN
  /\ ncrashes < MaxCrashes
  /\ \E t \in victims : tk[t].taken # {}
  /\ ncrashes' = ncrashes + 1
  /\ orphan' = orphan \cup UNION {tk[t].taken : t \in victims}
  /\ interrupted' = interrupted
                      \cup {tk[t].node : t \in {v \in victims :
                                                   pc[v] = "power_set"}}
  /\ pc' = [t \in Tasks |-> IF t \in victims THEN "idle" ELSE pc[t]]
  /\ tk' = [t \in Tasks |-> IF t \in victims THEN Idle ELSE tk[t]]
  /\ last' = NoCall
  /\ UNCHANGED <<db, ncalls, conductors, boot>>

---------------------------------------------------------------------------

NodeLists == (SUBSET Nodes) \ {{}}

Next ==
  \/ \E t \in Tasks, n \in Nodes : get_node_power_state(t, n)
  \/ \E t \in Tasks, n \in Nodes, delta \in Deltas : update_node(t, n, delta)
  \/ \E t \in Tasks : update_check(t)
  \/ \E t \in Tasks : update_save(t)
  \/ \E t \in Tasks, n \in Nodes, s \in NewStates :
       change_node_power_state(t, n, s)
  \/ \E t \in Tasks : power_check(t)
  \/ \E t \in Tasks : power_set(t)
  \/ \E t \in Tasks, n \in Nodes : do_node_deploy(t, n)
  \/ \E t \in Tasks : deploy_validate(t)
  \/ \E t \in Tasks : deploy_deploy(t)
  \/ \E t \in Tasks, n \in Nodes : do_node_tear_down(t, n)
  \/ \E t \in Tasks : tear_down_validate(t)
  \/ \E t \in Tasks : tear_down_tear_down(t)
  \/ \E t \in Tasks, n \in Nodes : validate_vendor_action(t, n)
  \/ \E t \in Tasks, n \in Nodes : do_vendor_action(t, n)
  \/ \E t \in Tasks, S \in NodeLists : acquire(t, S)
  \/ \E t \in Tasks : acquire_next(t)
  \/ \E t \in Tasks : release(t)
  \/ \E h \in {Host(t) : t \in Tasks} : Crash(h)

Spec == Init /\ [][Next]_vars

---------------------------------------------------------------------------
(* Membership: ConductorManager.start() over the conductor table, before   *)
(* any RPC is served.                                                      *)

(* df.names at a start and at a restart. *)
DriverNames == {<<"fake1", "fake2">>, <<"fake3", "fake4">>}

get_conductor(table, hostname) == {r \in table : r.hostname = hostname}

(* register_conductor: a new row, or ConductorAlreadyRegistered when the   *)
(* hostname has one.                                                       *)
register_conductor(table, hostname, drivers) ==
  IF get_conductor(table, hostname) # {}
  THEN [ok |-> FALSE, table |-> table]
  ELSE [ok |-> TRUE,
        table |-> table \cup {Row(hostname, drivers)}]

unregister_conductor(table, hostname) ==
  table \ get_conductor(table, hostname)

NotStarted == [at |-> "stopped", names |-> None, found |-> {}, beats |-> 0]

InitMembership ==
  /\ InitNodes
  /\ conductors = {}
  /\ boot = [h \in Hosts |-> NotStarted]

(* start() that registers again without unregistering the row it found. *)
start_unregister_keeps_row(h) ==
  /\ boot[h].at = "unregister"
  /\ conductors' = conductors
  /\ boot' = [boot EXCEPT ![h].at = "register"]
  /\ UNCHANGED nodeVars

(* start(): the driver names are loaded and register_conductor is tried;   *)
(* ConductorAlreadyRegistered is caught.                                   *)
start(h, names) ==
  LET r == register_conductor(conductors, h, names)
      found == get_conductor(conductors, h) IN
  /\ boot[h].at \in {"stopped", "started"}
  /\ conductors' = r.table
  /\ boot' = [boot EXCEPT ![h] =
                IF r.ok
                THEN Started(names, {})
                ELSE [at |-> "unregister", names |-> names, beats |-> 0,
                      found |-> {row.drivers : row \in found}]]
  /\ UNCHANGED nodeVars

(* The except clause: unregister_conductor(self.host). *)
start_unregister(h) ==
  /\ boot[h].at = "unregister"
  /\ conductors' = unregister_conductor(conductors, h)
  /\ boot' = [boot EXCEPT ![h].at = "register"]
  /\ UNCHANGED nodeVars

(* The except clause: register_conductor again; an exception here leaves   *)
(* start().                                                                *)
start_register(h) ==
  LET r == register_conductor(conductors, h, boot[h].names) IN
  /\ boot[h].at = "register"
  /\ conductors' = r.table
  /\ boot' = [boot EXCEPT ![h].at = IF r.ok THEN "started" ELSE "failed"]
  /\ UNCHANGED nodeVars

NextMembership ==
  \/ \E h \in Hosts, names \in DriverNames : start(h, names)
  \/ \E h \in Hosts : start_unregister(h)
  \/ \E h \in Hosts : start_register(h)

SpecMembership == InitMembership /\ [][NextMembership]_vars

---------------------------------------------------------------------------
(* One conductor only: host-a runs, host-b does not, so that the two tasks *)
(* are threads of the same conductor, as the task of the test and the      *)
(* service's are.                                                          *)
InitThreads ==
  /\ InitNodes
  /\ conductors = {Row("host-a", LoadedDrivers)}
  /\ boot = [h \in Hosts |-> IF h = "host-a"
                             THEN Started(LoadedDrivers, {})
                             ELSE NotStarted]

SpecThreads == InitThreads /\ [][Next]_vars


---------------------------------------------------------------------------
(* Keepalive: the periodic task of a started conductor, next to tasks that *)
(* take and release node reservations.                                     *)

(* touch_conductor that refreshes every row of the table. *)
touch_conductor_everyone(table, hostname) ==
  {[r EXCEPT !.updated_at = @ + 1] : r \in table}

(* touch_conductor: updated_at = now for the row of hostname. *)
touch_conductor(table, hostname) ==
  {IF r.hostname = hostname THEN [r EXCEPT !.updated_at = @ + 1] ELSE r :
     r \in table}

(* The call the keepalive made: touch_conductor, once, with hostname. *)
Touched(hostname) ==
  Ended(0, [Idle EXCEPT !.op = "periodic_tasks",
                        !.calls = <<"touch_conductor">>], "ok", hostname)

(* The periodic task of conductor h: self.dbapi.touch_conductor(self.host) *)
_conductor_service_record_keepalive(h) ==
  /\ conductors' = touch_conductor(conductors, h)
  /\ last' = Touched(h)

(* periodic_tasks: the periodic tasks of the manager are run, which are    *)
(* the keepalive alone; beats counts the runs of conductor h.              *)
periodic_tasks(h) ==
  /\ boot[h].at = "started"
  /\ boot[h].beats < MaxBeats
  /\ boot' = [boot EXCEPT ![h].beats = @ + 1]
  /\ _conductor_service_record_keepalive(h)
  /\ UNCHANGED <<db, pc, tk, ncalls, ncrashes, orphan, interrupted>>

NextAcquire ==
  \/ \E t \in Tasks, S \in NodeLists : acquire(t, S)
  \/ \E t \in Tasks : acquire_next(t)
  \/ \E t \in Tasks : release(t)
  \/ \E h \in {Host(t) : t \in Tasks} : Crash(h)

NextPeriodic ==
  \/ NextAcquire
  \/ \E h \in Hosts : periodic_tasks(h)

SpecPeriodic == Init /\ [][NextPeriodic]_vars

(* Every acquire runs on the thread of its caller, which keeps running     *)
(* for as long as its conductor does.                                      *)
SpecAcquire ==
  /\ Init
  /\ [][NextAcquire]_vars
  /\ \A t \in Tasks : WF_vars(acquire_next(t))

---------------------------------------------------------------------------
(* Properties. *)

ExclusiveOps == {"update_node", "change_node_power_state",
                 "do_node_deploy", "do_node_tear_down"}

(* The live tasks that hold the exclusive reservation of node n. *)
Holders(n) == {t \in Tasks : n \in tk[t].taken}

(* C1: a node has at most one exclusive holder at any instant, and the     *)
(* row's reservation names that holder's conductor, so of two tasks        *)
(* contending for a node only one holds it.                                *)
C1_MutualExclusion ==
  \A n \in Nodes :
    /\ Cardinality(Holders(n)) <= 1
    /\ \A t \in Holders(n) : db[n].reservation = Host(t)

(* One task holds node n and the other has just failed on it, NodeLocked. *)
C1_Witness ==
  \E n \in Nodes :
    /\ Holders(n) # {}
    /\ last.outcome = "NodeLocked"
    /\ last.node = n
    /\ last.task \notin Holders(n)
    /\ tk[last.task].taken = {}

(* C2 as stated: a node's reservation is non-null if and only if some      *)
(* task currently holds the exclusive lock on it.                          *)
C2_ReservationIffHolder ==
  \A n \in Nodes : db[n].reservation # None <=> Holders(n) # {}

(* C2 amended: a node's reservation is non-null if and only if some task   *)
(* currently holds the exclusive lock on it or the conductor that held it  *)
(* died in the middle of its task.                                         *)
C2_ReservationIffHolderOrOrphan ==
  \A n \in Nodes :
    db[n].reservation # None <=> (Holders(n) # {} \/ n \in orphan)

(* One node is held by a live task while another was left reserved by a    *)
(* conductor that died.                                                    *)
C2_Witness ==
  \E n, m \in Nodes :
    /\ n \in orphan /\ db[n].reservation # None /\ Holders(n) = {}
    /\ Holders(m) # {} /\ db[m].reservation # None

(* C3: every step that changes a field of a node's row other than          *)
(* last_error (and the reservation itself) is taken by a task of an        *)
(* exclusive handler that holds the node, with the row's reservation equal *)
(* to that task's hostname when the write is made.                         *)
C3_WritesUnderReservation ==
  [][\A n \in Nodes :
       (\E f \in Fields \ {"last_error", "reservation"} :
           db'[n][f] # db[n][f])
       => \E t \in Tasks :
            /\ pc'[t] # pc[t]
            /\ tk[t].op \in ExclusiveOps
            /\ tk[t].node = n
            /\ n \in tk[t].taken
            /\ db[n].reservation = Host(t)]_vars

(* An update_node has just saved a new extra, and a power change has its   *)
(* target written while its task holds the node.                           *)
C3_Witness ==
  \/ /\ last.op = "update_node" /\ last.outcome = "ok"
     /\ last.taken = {last.node}
     /\ db[last.node].extra # last.pre.extra
  \/ \E t \in Tasks :
       /\ pc[t] = "power_set"
       /\ db[tk[t].node].target_power_state = tk[t].new_state
       /\ db[tk[t].node].reservation = Host(t)

(* C4: when an exclusive handler that had taken the reservation has just   *)
(* exited, by return or by any exception, the node's reservation is null   *)
(* and the task holds nothing.                                             *)
C4_GuaranteedRelease ==
  (last.op \in ExclusiveOps /\ last.taken # {})
  => /\ \A n \in last.taken : db[n].reservation = None
     /\ tk[last.task].taken = {}

(* A handler has just left its block by an exception raised under the lock *)
C4_Witness ==
  /\ last.op \in ExclusiveOps
  /\ last.taken = {last.node}
  /\ last.outcome \in {"InstanceDeployFailure", "DriverError",
                       "InvalidParameterValue", "NodeInWrongPowerState"}
  /\ db[last.node].reservation = None

(* C5: an exclusive acquire succeeds exactly when the reservation was null *)
(* at the atomic step: a task that holds a node found it unreserved, and a *)
(* NodeLocked failure found it reserved, names the holder it found, and    *)
(* leaves the row as it was, reservation included.                         *)
C5_ReserveIffFree ==
  /\ \A t \in Tasks :
       (tk[t].op \in ExclusiveOps /\ tk[t].taken # {})
       => /\ tk[t].pre.reservation = None
          /\ db[tk[t].node].reservation = Host(t)
  /\ (last.op \in ExclusiveOps /\ last.outcome = "NodeLocked")
     => /\ last.pre.reservation # None
        /\ last.detail = last.pre.reservation
        /\ last.taken = {}
        /\ db[last.node] = last.pre
  /\ (last.op \in ExclusiveOps
        /\ last.outcome \notin {"NodeLocked", "IronicException"})
     => last.pre.reservation = None
  /\ (last.op = "acquire" /\ last.outcome = "NodeLocked")
     => /\ last.pre[last.node].reservation # None
        /\ last.detail = last.pre[last.node].reservation
        /\ db[last.node] = last.pre[last.node]

(* A handler has just failed with NodeLocked on a node another conductor   *)
(* holds.                                                                  *)
C5_Witness ==
  /\ last.op \in ExclusiveOps
  /\ last.outcome = "NodeLocked"
  /\ last.detail = db[last.node].reservation
  /\ last.detail # Host(last.task)
  /\ Holders(last.node) # {}

(* C6: an exclusive acquire on a list of nodes that finds its K-th node    *)
(* locked raises NodeLocked with none of the nodes it had taken still      *)
(* reserved, and with the rows of the K-th node and of the nodes after it  *)
(* as they were; a task that holds its list holds all of it.               *)
C6_AllOrNothing ==
  /\ (last.op = "acquire" /\ last.outcome = "NodeLocked")
     => /\ \A n \in last.taken : db[n].reservation = None
        /\ \A n \in last.want \ last.taken : db[n] = last.pre[n]
        /\ last.pre[last.node].reservation # None
        /\ \A n \in last.taken : n < last.node
        /\ tk[last.task].taken = {}
  /\ \A t \in Tasks :
       pc[t] = "holding"
       => /\ tk[t].taken = tk[t].want
          /\ \A n \in tk[t].want : db[n].reservation = Host(t)

(* An acquire of two nodes has just failed on the second, having taken the *)
(* first.                                                                  *)
C6_Witness ==
  /\ last.op = "acquire"
  /\ last.outcome = "NodeLocked"
  /\ last.taken # {}
  /\ last.node \in last.want \ last.taken
  /\ \A n \in last.taken : last.pre[n].reservation = Host(last.task)
  /\ \A n \in last.taken : db[n].reservation = None

(* C7 as stated: when change_node_power_state has acquired the lock and    *)
(* returned by the same-state short-circuit, a successful set or a failed  *)
(* set, the persisted target_power_state is NOSTATE.                       *)
C7_TargetClearedOnReturn ==
  (/\ last.op = "change_node_power_state"
   /\ last.taken # {}
   /\ (last.outcome = "ok" \/ last.detail = "set"))
  => db[last.node].target_power_state = NOSTATE

(* C8: when change_node_power_state has just failed, for whatever reason,  *)
(* the persisted power_state is the one the call found.                    *)
C8_PowerStateUnchangedOnFailure ==
  (last.op = "change_node_power_state" /\ last.outcome # "ok")
  => db[last.node].power_state = last.pre.power_state

(* set_power_state has just raised for a valid new state the node was not  *)
(* recorded to be in.                                                      *)
C8_Witness ==
  /\ last.op = "change_node_power_state"
  /\ last.outcome = "DriverError"
  /\ last.detail = "set"
  /\ last.pre.power_state # last.new_state
  /\ db[last.node].power_state = last.pre.power_state

(* C9 as stated: when change_node_power_state has just failed, for         *)
(* whatever reason, failure to obtain the lock included, the persisted     *)
(* last_error is non-null.                                                 *)
C9_LastErrorOnAnyFailure ==
  (last.op = "change_node_power_state" /\ last.outcome # "ok")
  => db[last.node].last_error # None

(* C9 amended: when change_node_power_state has just failed after having   *)
(* obtained the lock (validate, probe or set_power_state raised), the      *)
(* persisted last_error is non-null; a NodeLocked failure leaves           *)
(* last_error as it was.                                                   *)
C9_LastErrorOnFailureUnderLock ==
  /\ (last.op = "change_node_power_state"
        /\ last.outcome \notin {"ok", "NodeLocked"})
     => db[last.node].last_error # None
  /\ (last.op = "change_node_power_state" /\ last.outcome = "NodeLocked")
     => db[last.node].last_error = last.pre.last_error

(* driver.power.validate has just raised on a node that had no last_error. *)
C9_Witness ==
  /\ last.op = "change_node_power_state"
  /\ last.outcome = "InvalidParameterValue"
  /\ last.detail = "validate"
  /\ last.pre.last_error = None
  /\ db[last.node].last_error # None

(* C10 as stated: a step changes a node's persisted power_state only if it *)
(* is a step of a change_node_power_state task on that node.               *)
C10_PowerStateOnlyByPowerChange ==
  [][\A n \in Nodes :
       db'[n].power_state # db[n].power_state
       => \E t \in Tasks :
            /\ pc'[t] # pc[t]
            /\ tk[t].op = "change_node_power_state"
            /\ tk[t].node = n]_vars

(* C11: an update_node whose changed fields include power_state has, when  *)
(* it ends, failed with IronicException, taken no reservation, called no   *)
(* driver method and left the node's row, every field of it, as it was.    *)
C11_PowerStateInDeltaRejected ==
  (last.op = "update_node" /\ "power_state" \in DOMAIN last.delta)
  => /\ last.outcome = "IronicException"
     /\ last.taken = {}
     /\ last.calls = <<>>
     /\ db[last.node] = last.pre
     /\ \A t \in Tasks :
          tk[t].op = "update_node" => "power_state" \notin DOMAIN tk[t].delta

(* An update_node asking for a power_state the row does not have has just  *)
(* been rejected.                                                          *)
C11_Witness ==
  /\ last.op = "update_node"
  /\ "power_state" \in DOMAIN last.delta
  /\ last.delta.power_state # db[last.node].power_state
  /\ last.outcome = "IronicException"

(* C12: when an update_node with instance_uuid among its changed fields    *)
(* (set or cleared) has taken the lock and ended, it succeeded only if the *)
(* live probe answered POWER_OFF, whatever power_state the row had; if the *)
(* probe answered anything else it failed with NodeInWrongPowerState; and  *)
(* after any failure the row is as the call found it, with no field of the *)
(* delta saved.                                                            *)
C12_AssociateOnlyWhenLiveOff ==
  (/\ last.op = "update_node"
   /\ "instance_uuid" \in DOMAIN last.delta
   /\ last.taken # {})
  => /\ last.outcome \in {"ok", "NodeInWrongPowerState",
                          "InvalidParameterValue", "DriverError"}
     /\ last.outcome = "ok"
        => /\ last.calls = PowerProbe
           /\ last.detail = POWER_OFF
           /\ db[last.node].instance_uuid = last.delta.instance_uuid
     /\ last.outcome = "NodeInWrongPowerState"
        => /\ last.calls = PowerProbe
           /\ last.detail \in PowerStates \ {POWER_OFF}
     /\ last.outcome # "ok" => db[last.node] = last.pre

(* An association has just been refused on a node recorded as POWER_OFF    *)
(* whose driver answered otherwise.                                        *)
C12_Witness ==
  /\ last.op = "update_node"
  /\ "instance_uuid" \in DOMAIN last.delta
  /\ last.outcome = "NodeInWrongPowerState"
  /\ last.pre.power_state = POWER_OFF
  /\ last.detail = POWER_ON
  /\ last.delta.instance_uuid # db[last.node].instance_uuid

DeployCalls == <<"deploy.validate", "deploy.deploy">>
TearDownCalls == <<"deploy.validate", "deploy.tear_down">>

(* C13: when a do_node_deploy has just completed with driver.deploy.deploy *)
(* having returned DEPLOYDONE, the persisted node has provision_state      *)
(* ACTIVE, target_provision_state NOSTATE and last_error null.             *)
C13_DeployDone ==
  (/\ last.op = "do_node_deploy"
   /\ last.calls = DeployCalls
   /\ last.detail = DEPLOYDONE)
  => /\ last.outcome = "ok"
     /\ db[last.node].provision_state = ACTIVE
     /\ db[last.node].target_provision_state = NOSTATE
     /\ db[last.node].last_error = None

(* A deploy has just completed, DEPLOYDONE, on a node that carried an old  *)
(* last_error.                                                             *)
C13_Witness ==
  /\ last.op = "do_node_deploy"
  /\ last.outcome = "ok"
  /\ last.detail = DEPLOYDONE
  /\ last.pre.last_error # None
  /\ db[last.node].provision_state = ACTIVE

(* C14: when a do_node_tear_down has just completed with                   *)
(* driver.deploy.tear_down having returned DELETED, the persisted node has *)
(* provision_state NOSTATE, target_provision_state NOSTATE and last_error  *)
(* null, and is unreserved: it passes the precondition of do_node_deploy.  *)
C14_TearDownDeleted ==
  (/\ last.op = "do_node_tear_down"
   /\ last.calls = TearDownCalls
   /\ last.detail = DELETED)
  => /\ last.outcome = "ok"
     /\ db[last.node].provision_state = NOSTATE
     /\ db[last.node].target_provision_state = NOSTATE
     /\ db[last.node].last_error = None
     /\ db[last.node].reservation = None

(* A tear down of a node that was ACTIVE or ERROR has just completed,      *)
(* DELETED.                                                                *)
C14_Witness ==
  /\ last.op = "do_node_tear_down"
  /\ last.outcome = "ok"
  /\ last.detail = DELETED
  /\ last.pre.provision_state \in {ACTIVE, ERROR}
  /\ db[last.node].provision_state = NOSTATE

(* C15: when driver.deploy.deploy (resp. tear_down) has just returned a    *)
(* state other than DEPLOYDONE (resp. DELETED), the handler returned       *)
(* without an exception, the persisted provision_state is the returned     *)
(* state, target_provision_state is still DEPLOYDONE (resp. DELETED) and   *)
(* last_error is null.                                                     *)
C15_PendingResult ==
  /\ (/\ last.op = "do_node_deploy"
      /\ last.calls = DeployCalls
      /\ last.detail \in DeployReturns \ {DEPLOYDONE})
     => /\ last.outcome = "ok"
        /\ db[last.node].provision_state = last.detail
        /\ db[last.node].target_provision_state = DEPLOYDONE
        /\ db[last.node].last_error = None
  /\ (/\ last.op = "do_node_tear_down"
      /\ last.calls = TearDownCalls
      /\ last.detail \in TearDownReturns \ {DELETED})
     => /\ last.outcome = "ok"
        /\ db[last.node].provision_state = last.detail
        /\ db[last.node].target_provision_state = DELETED
        /\ db[last.node].last_error = None

(* A deploy has just returned with the driver still DEPLOYING.             *)
C15_Witness ==
  /\ last.op = "do_node_deploy"
  /\ last.outcome = "ok"
  /\ last.detail = DEPLOYING
  /\ db[last.node].provision_state = DEPLOYING
  /\ db[last.node].target_provision_state = DEPLOYDONE

(* C16: when driver.deploy.deploy or driver.deploy.tear_down has just      *)
(* raised, the exception went on to the caller and the persisted node has  *)
(* provision_state ERROR, target_provision_state NOSTATE and last_error    *)
(* non-null.                                                               *)
C16_DriverActionFailure ==
  (/\ last.op \in {"do_node_deploy", "do_node_tear_down"}
   /\ last.calls \in {DeployCalls, TearDownCalls}
   /\ last.outcome # "ok")
  => /\ last.outcome = "InstanceDeployFailure"
     /\ db[last.node].provision_state = ERROR
     /\ db[last.node].target_provision_state = NOSTATE
     /\ db[last.node].last_error # None

(* driver.deploy.tear_down has just raised on a node that was ACTIVE.      *)
C16_Witness ==
  /\ last.op = "do_node_tear_down"
  /\ last.calls = TearDownCalls
  /\ last.outcome = "InstanceDeployFailure"
  /\ last.pre.provision_state = ACTIVE
  /\ db[last.node].provision_state = ERROR

(* C17: a do_node_deploy that took the lock of a node whose                *)
(* provision_state was not NOSTATE, and a do_node_tear_down that took the  *)
(* lock of a node whose provision_state was not ACTIVE, DEPLOYFAIL or      *)
(* ERROR, has when it ends failed with InstanceDeployFailure, called no    *)
(* driver method and left every field of the row as it was; and no task    *)
(* of either handler gets past its precondition on such a node.            *)
C17_ProvisioningPreconditions ==
  /\ (/\ last.op = "do_node_deploy"
      /\ last.taken # {}
      /\ last.pre.provision_state # NOSTATE)
     => /\ last.outcome = "InstanceDeployFailure"
        /\ last.calls = <<>>
        /\ db[last.node] = last.pre
  /\ (/\ last.op = "do_node_tear_down"
      /\ last.taken # {}
      /\ last.pre.provision_state \notin {ACTIVE, DEPLOYFAIL, ERROR})
     => /\ last.outcome = "InstanceDeployFailure"
        /\ last.calls = <<>>
        /\ db[last.node] = last.pre
  /\ \A t \in Tasks :
       /\ pc[t] = "deploy_deploy" => tk[t].pre.provision_state = NOSTATE
       /\ pc[t] = "tear_down_tear_down"
          => tk[t].pre.provision_state \in {ACTIVE, DEPLOYFAIL, ERROR}

(* A deploy of an ACTIVE node has just been refused.                       *)
C17_Witness ==
  /\ last.op = "do_node_deploy"
  /\ last.taken # {}
  /\ last.pre.provision_state = ACTIVE
  /\ last.outcome = "InstanceDeployFailure"
  /\ db[last.node].provision_state = ACTIVE

TransitionOps == {"change_node_power_state", "do_node_deploy",
                  "do_node_tear_down"}

(* C18 as stated: when a driver call (validate, the live probe or the      *)
(* action) of change_node_power_state, do_node_deploy or do_node_tear_down *)
(* has just raised, the exception went on to the caller and the persisted  *)
(* node has last_error non-null and the handler's target                   *)
(* (target_power_state resp. target_provision_state) NOSTATE.              *)
C18_PropagationPolicy ==
  (/\ last.op \in TransitionOps
   /\ last.calls # <<>>
   /\ last.outcome # "ok")
  => /\ db[last.node].last_error # None
     /\ IF last.op = "change_node_power_state"
        THEN db[last.node].target_power_state = NOSTATE
        ELSE db[last.node].target_provision_state = NOSTATE

(* C19: an update_node (one that asks for no power_state) or a             *)
(* change_node_power_state that arrives while the node is reserved fails   *)
(* with NodeLocked; and when either has just failed with NodeLocked it has *)
(* called no driver method, holds nothing, and every field of the row,     *)
(* reservation included, is as it was.                                     *)
C19_LockConflictUntouched ==
  /\ (/\ last.op \in {"update_node", "change_node_power_state"}
      /\ "power_state" \notin DOMAIN last.delta
      /\ last.pre.reservation # None)
     => last.outcome = "NodeLocked"
  /\ (/\ last.op \in {"update_node", "change_node_power_state"}
      /\ last.outcome = "NodeLocked")
     => /\ last.calls = <<>>
        /\ last.taken = {}
        /\ tk[last.task].taken = {}
        /\ db[last.node] = last.pre
        /\ db[last.node].reservation # None

(* A change_node_power_state to a state the node is not in has just failed *)
(* NodeLocked on a node a live task holds.                                 *)
C19_Witness ==
  /\ last.op = "change_node_power_state"
  /\ last.outcome = "NodeLocked"
  /\ last.new_state # db[last.node].power_state
  /\ Holders(last.node) # {}
  /\ db[last.node].last_error = None

PowerChangeCalls == PowerProbe \o <<"power.set_power_state">>

(* How many times the call that has just ended invoked driver method m. *)
Count(m) == Cardinality({i \in DOMAIN last.calls : last.calls[i] = m})

(* C21: when change_node_power_state has just returned from a successful   *)
(* set_power_state (validation passed, the live probe differed from        *)
(* new_state), it called get_power_state exactly once and set_power_state  *)
(* exactly once, and the persisted node has power_state = new_state,       *)
(* target_power_state NOSTATE and last_error null, whatever last_error the *)
(* call found.                                                             *)
C21_SuccessfulPowerChange ==
  (/\ last.op = "change_node_power_state"
   /\ last.outcome = "ok"
   /\ Count("power.set_power_state") > 0)
  => /\ last.calls = PowerChangeCalls
     /\ Count("power.get_power_state") = 1
     /\ Count("power.set_power_state") = 1
     /\ last.new_state \in ValidNewStates
     /\ db[last.node].power_state = last.new_state
     /\ db[last.node].target_power_state = NOSTATE
     /\ db[last.node].last_error = None

(* A power change has just succeeded on a node that carried the last_error *)
(* of an earlier call.                                                     *)
C21_Witness ==
  /\ last.op = "change_node_power_state"
  /\ last.outcome = "ok"
  /\ last.calls = PowerChangeCalls
  /\ last.pre.last_error # None
  /\ last.pre.power_state # last.new_state
  /\ db[last.node].power_state = last.new_state

(* C22 as stated: whenever change_node_power_state has just returned       *)
(* successfully, the persisted power_state equals new_state, whatever the  *)
(* recorded power_state and the live state were.                           *)
C22_SuccessMeansNewState ==
  (last.op = "change_node_power_state" /\ last.outcome = "ok")
  => db[last.node].power_state = last.new_state

C24_MissingCapability ==
  (/\ last.op \in {"validate_vendor_action", "do_vendor_action"}
   /\ ~HasVendor(db[last.node].driver))
  => last.outcome = "UnsupportedDriverExtension"

(* C25: once a start() of a conductor has returned, first start or restart *)
(* over a row already present, the conductor table has exactly one row for *)
(* its hostname and that row's drivers are the names loaded at that most   *)
(* recent start; and no start() ends in ConductorAlreadyRegistered.        *)
C25_StartRegistersDrivers ==
  \A h \in Hosts :
    /\ boot[h].at = "started"
       => get_conductor(conductors, h)
            = {Row(h, boot[h].names)}
    /\ boot[h].at # "failed"
    /\ Cardinality(get_conductor(conductors, h)) <= 1

(* A restart has replaced the driver list it found with another one.       *)
C25_Witness ==
  \E h \in Hosts :
    /\ boot[h].at = "started"
    /\ boot[h].found # {}
    /\ boot[h].names \notin boot[h].found
    /\ get_conductor(conductors, h)
         = {Row(h, boot[h].names)}

(* C26: for every node whose reservation is null and every holder h,       *)
(* reserve_node by h succeeds and release_node by h after it gives back    *)
(* the table as it was, the reservation null, so that reserve_node by any  *)
(* conductor succeeds again; and a task that took reservations and left    *)
(* its block has left them null.                                           *)
C26_ReserveReleaseRoundTrip ==
  /\ \A n \in Nodes, h \in Hosts :
       db[n].reservation = None
       => LET r == reserve_node(db, n, h)
              d == release_node(r.db, n, h) IN
          /\ r.ok
          /\ r.db[n].reservation = h
          /\ d[n].reservation = None
          /\ d = db
          /\ \A g \in Hosts : reserve_node(d, n, g).ok
  /\ (last.op = "acquire" /\ last.outcome = "ok")
     => \A n \in last.taken :
          /\ db[n].reservation = None
          /\ \A g \in Hosts : reserve_node(db, n, g).ok

(* A task has just released the two nodes it had reserved.                 *)
C26_Witness ==
  /\ last.op = "acquire"
  /\ last.outcome = "ok"
  /\ last.taken = Nodes
  /\ \A n \in Nodes : db[n].reservation = None

(* The change_node_power_state tasks that are inside their driver's        *)
(* set_power_state on node n, holding it.                                  *)
PowerTransitions(n) ==
  {t \in Tasks : /\ pc[t] = "power_set"
                 /\ tk[t].node = n
                 /\ n \in tk[t].taken}

(* C27: whenever a node's persisted target_power_state is not NOSTATE,     *)
(* either a change_node_power_state task holds the node, has written that  *)
(* target and has not yet made its final save, or a power change on the    *)
(* node was interrupted by the death of its conductor; so where no power   *)
(* change was ever interrupted, target_power_state is NOSTATE on every     *)
(* node no change_node_power_state task holds.                             *)
C27_TargetPowerStateMeansInProgress ==
  /\ \A n \in Nodes :
       db[n].target_power_state # NOSTATE
       => \/ \E t \in PowerTransitions(n) :
               /\ db[n].target_power_state = tk[t].new_state
               /\ db[n].reservation = Host(t)
          \/ n \in interrupted
  /\ interrupted = {}
     => \A n \in Nodes :
          (\A t \in Holders(n) : tk[t].op # "change_node_power_state")
          => db[n].target_power_state = NOSTATE

(* One node is in the middle of a power change, and another node's power   *)
(* change has ended with its target cleared.                               *)
C27_Witness ==
  /\ interrupted = {}
  /\ \E n \in Nodes :
       /\ PowerTransitions(n) # {}
       /\ db[n].target_power_state \in ValidNewStates
  /\ \E n \in Nodes :
       /\ PowerTransitions(n) = {}
       /\ db[n].power_state # NOSTATE
       /\ db[n].target_power_state = NOSTATE

(* C28 as stated: whenever a node's persisted target_provision_state is    *)
(* not NOSTATE, its provision_state is the matching in-progress state:     *)
(* DEPLOYING with target DEPLOYDONE, DELETING with target DELETED.         *)
C28_TargetProvisionStateMeansInProgress ==
  \A n \in Nodes :
    db[n].target_provision_state # NOSTATE
    => \/ /\ db[n].provision_state = DEPLOYING
          /\ db[n].target_provision_state = DEPLOYDONE
       \/ /\ db[n].provision_state = DELETING
          /\ db[n].target_provision_state = DELETED

(* The deploy and tear-down tasks that are inside their driver's action on *)
(* node n, holding it.                                                     *)
ProvisionTransitions(n) ==
  {t \in Tasks : /\ pc[t] \in {"deploy_deploy", "tear_down_tear_down"}
                 /\ tk[t].node = n
                 /\ n \in tk[t].taken}

(* C28 amended: whenever a node's persisted target_provision_state is not  *)
(* NOSTATE, it is DEPLOYDONE or DELETED and the transition towards it has  *)
(* not reached its final result: provision_state is DEPLOYING (resp.       *)
(* DELETING), as it is for as long as a deploy (resp. tear-down) task is   *)
(* inside the driver's action and holds the node, and as it stays if the   *)
(* task's conductor dies there, or it is the state other than DEPLOYDONE   *)
(* (resp. DELETED) that the driver returned, whatever that state is.       *)
C28_TargetProvisionStateMeansNotFinal ==
  \A n \in Nodes :
    /\ db[n].target_provision_state # NOSTATE
       => \/ /\ db[n].target_provision_state = DEPLOYDONE
             /\ db[n].provision_state
                  \in {DEPLOYING} \cup (DeployReturns \ {DEPLOYDONE})
          \/ /\ db[n].target_provision_state = DELETED
             /\ db[n].provision_state
                  \in {DELETING} \cup (TearDownReturns \ {DELETED})
    /\ \A t \in ProvisionTransitions(n) :
         /\ db[n].reservation = Host(t)
         /\ IF pc[t] = "deploy_deploy"
            THEN /\ db[n].provision_state = DEPLOYING
                 /\ db[n].target_provision_state = DEPLOYDONE
            ELSE /\ db[n].provision_state = DELETING
                 /\ db[n].target_provision_state = DELETED

(* The driver has returned DEPLOYFAIL from deploy: the node is unreserved  *)
(* with that provision_state and the target DEPLOYDONE.                    *)
C28_Witness ==
  /\ last.op = "do_node_deploy"
  /\ last.outcome = "ok"
  /\ last.detail = DEPLOYFAIL
  /\ db[last.node].provision_state = DEPLOYFAIL
  /\ db[last.node].target_provision_state = DEPLOYDONE
  /\ db[last.node].reservation = None

SharedOps == {"get_node_power_state", "validate_vendor_action",
              "do_vendor_action"}

(* C29: when a shared-mode operation has just ended it holds no            *)
(* reservation, did not fail with NodeLocked whoever had the node          *)
(* reserved, and left the node's row, reservation included, as it found    *)
(* it; and an exclusive acquire that has just failed with NodeLocked found *)
(* the node reserved by an exclusive holder, live or dead.                 *)
C29_SharedOpsLeaveNoTrace ==
  /\ last.op \in SharedOps
     => /\ last.taken = {}
        /\ tk[last.task].taken = {}
        /\ pc[last.task] = "idle"
        /\ last.outcome # "NodeLocked"
        /\ db[last.node] = last.pre
  /\ (last.op \in ExclusiveOps /\ last.outcome = "NodeLocked")
     => \/ \E t \in Holders(last.node) :
             /\ tk[t].op \in ExclusiveOps \cup {"acquire"}
             /\ Host(t) = last.detail
        \/ last.node \in orphan

(* get_node_power_state has just returned the state of a node that a task  *)
(* of another conductor holds.                                             *)
C29_Witness ==
  /\ last.op = "get_node_power_state"
  /\ last.outcome = "ok"
  /\ \E t \in Holders(last.node) : Host(t) # Host(last.task)
  /\ db[last.node].reservation # None
  /\ db[last.node] = last.pre

(* C30: while a change_node_power_state task is inside set_power_state,    *)
(* which it has not called before, the persisted row has                   *)
(* target_power_state = new_state, last_error null, the power_state the    *)
(* task found and reservation = the task's conductor: that is what a       *)
(* shared reader reads for as long as the driver call lasts.               *)
C30_MarkerBeforeSetPowerState ==
  /\ \A t \in Tasks :
       pc[t] = "power_set"
       => /\ tk[t].calls = PowerProbe
          /\ db[tk[t].node].target_power_state = tk[t].new_state
          /\ db[tk[t].node].last_error = None
          /\ db[tk[t].node].power_state = tk[t].pre.power_state
          /\ db[tk[t].node].reservation = Host(t)
  /\ \A t \in Tasks :
       (/\ last.op \in SharedOps
        /\ pc[t] = "power_set"
        /\ tk[t].node = last.node)
       => /\ last.pre.target_power_state = tk[t].new_state
          /\ last.pre.power_state = tk[t].pre.power_state
          /\ last.pre.reservation = Host(t)

(* A shared reader has just read a node whose power is being changed by a  *)
(* task of another conductor.                                              *)
C30_Witness ==
  \E t \in Tasks :
    /\ pc[t] = "power_set"
    /\ last.op = "get_node_power_state"
    /\ last.node = tk[t].node
    /\ last.task # t
    /\ last.pre.target_power_state = tk[t].new_state
    /\ last.pre.power_state # tk[t].new_state
    /\ last.pre.reservation = Host(t)

(* The state do_node_deploy and do_node_tear_down persist when the         *)
(* driver's action returns the state answer: the final one for DEPLOYDONE  *)
(* and DELETED, the returned one otherwise.                                *)
Persisted(answer) ==
  IF answer = DEPLOYDONE THEN ACTIVE
  ELSE IF answer = DELETED THEN NOSTATE
  ELSE answer

(* C31: do_node_deploy and do_node_tear_down hold the node's reservation   *)
(* for their whole duration: from the grant of the lock until the handler  *)
(* ends the reservation is the acting conductor's hostname, and while the  *)
(* driver's deploy (tear_down) runs the persisted provision_state and      *)
(* target_provision_state are DEPLOYING and DEPLOYDONE (DELETING and       *)
(* DELETED); the only step that takes the reservation away from a task     *)
(* inside the driver's action is the one in which the handler ends, with   *)
(* the final provision_state persisted and the reservation null.           *)
C31_LockHeldForWholeTransition ==
  /\ [](\A t \in Tasks :
          (/\ pc[t] # "idle"
           /\ tk[t].op \in {"do_node_deploy", "do_node_tear_down"})
          => /\ db[tk[t].node].reservation = Host(t)
             /\ pc[t] = "deploy_deploy"
                => /\ db[tk[t].node].provision_state = DEPLOYING
                   /\ db[tk[t].node].target_provision_state = DEPLOYDONE
             /\ pc[t] = "tear_down_tear_down"
                => /\ db[tk[t].node].provision_state = DELETING
                   /\ db[tk[t].node].target_provision_state = DELETED)
  /\ [][\A t \in Tasks :
          (/\ pc[t] \in {"deploy_deploy", "tear_down_tear_down"}
           /\ db'[tk[t].node].reservation # db[tk[t].node].reservation)
          => /\ last'.task = t
             /\ last'.op = tk[t].op
             /\ last'.node = tk[t].node
             /\ db'[last'.node].reservation = None
             /\ db'[last'.node].provision_state
                  = IF last'.outcome = "ok" THEN Persisted(last'.detail)
                    ELSE ERROR]_vars

(* A tear-down is inside driver.deploy.tear_down: the node is reserved by  *)
(* its conductor and persisted as DELETING towards DELETED.                *)
C31_Witness ==
  \E t \in Tasks :
    /\ pc[t] = "tear_down_tear_down"
    /\ db[tk[t].node].reservation = Host(t)
    /\ db[tk[t].node].provision_state = DELETING
    /\ db[tk[t].node].target_provision_state = DELETED

(* C32: a change_node_power_state whose driver.power.validate raised has   *)
(* failed with that error, having called neither get_power_state nor       *)
(* set_power_state; the row has a non-null last_error, and its power_state *)
(* and target_power_state, like every other field, are as they were when   *)
(* the lock was taken.                                                     *)
C32_PowerValidateFailure ==
  (/\ last.op = "change_node_power_state"
   /\ last.detail = "validate")
  => /\ last.outcome = "InvalidParameterValue"
     /\ last.calls = <<"power.validate">>
     /\ db[last.node].last_error # None
     /\ db[last.node].power_state = last.pre.power_state
     /\ db[last.node].target_power_state = last.pre.target_power_state
     /\ db[last.node] = [last.pre EXCEPT !.last_error = PowerError]

(* Validation has just failed for a node that carried a                    *)
(* target_power_state: the target is still there, with the error.          *)
C32_Witness ==
  /\ last.op = "change_node_power_state"
  /\ last.detail = "validate"
  /\ last.pre.target_power_state = POWER_OFF
  /\ last.pre.last_error = None
  /\ db[last.node].target_power_state = POWER_OFF
  /\ db[last.node].last_error = PowerError

(* C33: a do_node_deploy or do_node_tear_down whose driver.deploy.validate *)
(* raised has failed with that error without calling deploy or tear_down;  *)
(* the row has a non-null last_error, and its provision_state and          *)
(* target_provision_state, like every other field, are as they were when   *)
(* the lock was taken.                                                     *)
C33_DeployValidateFailure ==
  (/\ last.op \in {"do_node_deploy", "do_node_tear_down"}
   /\ last.detail = "validate")
  => /\ last.outcome = "InvalidParameterValue"
     /\ last.calls = <<"deploy.validate">>
     /\ db[last.node].last_error
          = (IF last.op = "do_node_deploy" THEN DeployValidateError
             ELSE TearDownValidateError)
     /\ db[last.node].last_error # None
     /\ db[last.node].provision_state = last.pre.provision_state
     /\ db[last.node].target_provision_state
          = last.pre.target_provision_state
     /\ \A f \in Fields \ {"last_error"} :
          db[last.node][f] = last.pre[f]

(* Validation has just failed for the tear-down of an ACTIVE node, which   *)
(* is still ACTIVE.                                                        *)
C33_Witness ==
  /\ last.op = "do_node_tear_down"
  /\ last.detail = "validate"
  /\ last.pre.provision_state = ACTIVE
  /\ db[last.node].provision_state = ACTIVE
  /\ db[last.node].last_error = TearDownValidateError

(* C37: an update_node whose delta names a driver that is not loaded, for  *)
(* a node nobody has reserved, has failed with DriverNotFound before any   *)
(* driver call; every field of the persisted row is as it was, the driver  *)
(* included, and the reservation is null again: no task holds the node.    *)
C37_UnknownDriverLeavesNoTrace ==
  (/\ last.op = "update_node"
   /\ "driver" \in DOMAIN last.delta
   /\ last.delta.driver \notin Drivers
   /\ last.pre.reservation = None)
  => /\ last.outcome = "DriverNotFound"
     /\ last.calls = <<>>
     /\ db[last.node] = last.pre
     /\ db[last.node].driver # last.delta.driver
     /\ db[last.node].reservation = None
     /\ Holders(last.node) = {}

(* update_node towards wrong-driver has just failed for a free node. *)
C37_Witness ==
  /\ last.op = "update_node"
  /\ last.outcome = "DriverNotFound"
  /\ last.detail = "wrong-driver"
  /\ last.pre.reservation = None
  /\ db[last.node].driver = "fake"
  /\ db[last.node].reservation = None

C35_CrashLeavesNodeReserved ==
  /\ [](\A n \in orphan :
          /\ db[n].reservation \in Hosts
          /\ Holders(n) = {})
  /\ []((/\ last.op \in ExclusiveOps \cup {"acquire"}
         /\ last.node \in orphan
         /\ last.outcome # "IronicException")
        => /\ last.outcome = "NodeLocked"
           /\ last.detail = db[last.node].reservation)
  /\ [][/\ \A n \in orphan : /\ n \in orphan'
                             /\ db'[n].reservation = db[n].reservation
        /\ \A n \in orphan' \ orphan :
             \E t \in Tasks : /\ n \in tk[t].taken
                              /\ pc'[t] = "idle"
                              /\ db[n].reservation = Host(t)
                              /\ db'[n].reservation = Host(t)]_vars

(* The conductor that died holding a node has started again and its call   *)
(* for that node has just failed with NodeLocked, the holder named being   *)
(* its own hostname.                                                       *)
C35_Witness ==
  /\ last.node \in orphan
  /\ last.op \in ExclusiveOps
  /\ last.outcome = "NodeLocked"
  /\ last.detail = Host(last.task)
  /\ db[last.node].reservation = Host(last.task)

(* C36: the lock is not re-entrant and holds between the threads of one    *)
(* conductor. With both tasks under one hostname, a node has at most one   *)
(* holder and stays reserved for as long as a task holds it; a call that   *)
(* is refused a node with NodeLocked naming its own hostname when no       *)
(* conductor died has found another thread of its conductor holding the    *)
(* node, and after the refusal that thread still holds it, reserved,       *)
(* while the refused task holds nothing.                                   *)
C36_NotReentrantAcrossThreads ==
  /\ \A n \in Nodes :
       /\ Cardinality(Holders(n)) <= 1
       /\ Holders(n) # {} => db[n].reservation \in {Host(t) : t \in Holders(n)}
  /\ (/\ last.outcome = "NodeLocked"
      /\ last.detail = Host(last.task)
      /\ last.node \notin orphan)
     => /\ tk[last.task].taken = {}
        /\ \E u \in Tasks \ {last.task} :
             /\ Host(u) = Host(last.task)
             /\ last.node \in tk[u].taken
             /\ db[last.node].reservation = Host(u)

(* A thread of host-a has just been refused the node that another thread   *)
(* of host-a holds.                                                        *)
C36_Witness ==
  /\ last.outcome = "NodeLocked"
  /\ last.op \in ExclusiveOps
  /\ last.detail = Host(last.task)
  /\ \E u \in Tasks \ {last.task} :
       /\ Host(u) = Host(last.task)
       /\ last.node \in tk[u].taken
       /\ db[last.node].reservation = Host(u)

(* C38: a run of the periodic tasks of conductor h calls touch_conductor   *)
(* once, with h: of the conductor table only the updated_at of the row of  *)
(* h changes, by one heartbeat; no node row is written, no reservation is  *)
(* taken or released and no task moves; and a started conductor's run is   *)
(* enabled whatever the reservations of the nodes are.                     *)
C38_KeepaliveTouchesOwnRowOnly ==
  /\ [][\A h \in Hosts :
          boot'[h].beats # boot[h].beats
          => /\ last'.op = "periodic_tasks"
             /\ last'.calls = <<"touch_conductor">>
             /\ last'.detail = h
             /\ \A r \in conductors :
                  IF r.hostname = h
                  THEN [r EXCEPT !.updated_at = @ + 1] \in conductors'
                  ELSE r \in conductors'
             /\ Cardinality(conductors') = Cardinality(conductors)
             /\ boot' = [boot EXCEPT ![h].beats = @ + 1]
             /\ UNCHANGED <<db, pc, tk, ncalls, ncrashes, orphan,
                            interrupted>>]_vars
  /\ [](\A h \in Hosts :
          (boot[h].at = "started" /\ boot[h].beats < MaxBeats)
          => ENABLED periodic_tasks(h))

(* The keepalive of a conductor has just run while one of that conductor's *)
(* tasks held a node and a node was left reserved by a dead conductor.     *)
C38_Witness ==
  /\ last.op = "periodic_tasks"
  /\ \E t \in Tasks : /\ Host(t) = last.detail
                      /\ tk[t].taken # {}
                      /\ \A n \in tk[t].taken : db[n].reservation = Host(t)
  /\ orphan # {}
  /\ \E r \in conductors : r.hostname = last.detail /\ r.updated_at = 1

(* C39: acquisitions of several nodes never wait for each other. A task    *)
(* that is acquiring is never blocked, whoever holds the node it needs     *)
(* next; it takes its nodes in ascending order of id; and every acquire    *)
(* ends, holding all the nodes it asked for and each reserved for its      *)
(* conductor, or with NodeLocked holding none, what it had taken being     *)
(* released.                                                               *)
C39_AcquireTerminates ==
  /\ \A t \in Tasks : (pc[t] = "acquiring") ~> (pc[t] # "acquiring")
  /\ [](\A t \in Tasks :
          /\ pc[t] = "acquiring"
             => /\ ENABLED acquire_next(t)
                /\ tk[t].taken # tk[t].want
                /\ \A n \in tk[t].taken, m \in tk[t].want \ tk[t].taken :
                     n < m
          /\ pc[t] = "holding"
             => /\ tk[t].taken = tk[t].want
                /\ \A n \in tk[t].want : db[n].reservation = Host(t))
  /\ []((last.op = "acquire" /\ last.outcome = "NodeLocked")
        => /\ pc[last.task] = "idle"
           /\ tk[last.task].taken = {}
           /\ \A n \in last.taken : db[n].reservation = None)
  /\ [][\A t \in Tasks :
          (pc[t] = "acquiring" /\ pc'[t] = "idle" /\ ncrashes' = ncrashes)
          => /\ last'.task = t
             /\ last'.outcome = "NodeLocked"]_vars

(* Two tasks want both nodes: one has taken node 1 and needs node 2 next,  *)
(* the other is about to ask for node 1.                                   *)
C39_Witness ==
  \E t \in Tasks, u \in Tasks :
    /\ t # u
    /\ pc[t] = "acquiring"
    /\ pc[u] = "acquiring"
    /\ tk[t].want = Nodes
    /\ tk[u].want = Nodes
    /\ tk[t].taken = {1}
    /\ tk[u].taken = {}

====
